---- MODULE Spec2Model ----
(***************************************************************************)
(* A model of the administrative scripts of the Automations repository.    *)
(* Each script is a sequential program of its own; `prog` says which one a *)
(* behaviour runs, and the variables of the other scripts keep their       *)
(* initial values.                                                         *)
(*                                                                         *)
(*   confluence-pages.py   enumeration of spaces and pages (cursor         *)
(*                         following), the batched restriction scan        *)
(*   confluence-pages.py   safe_get, the retry loop around one GET         *)
(*   jira-audit.py         get / post, the recursive 429 retry             *)
(*   slack-deactivate.py   main, the exact-match lookup and deactivation   *)
(*   slack-deactivate.py   scim_request, assert_scim_access                *)
(*   List-GH-Repos.py      get_inactive_repos                              *)
(*   zendesk.py            the ticket fetch loop                           *)
(*   jira-audit.py         collect_last_activity_by_project, get_paged,    *)
(*                         the /group/bulk loop, collect_screens           *)
(*   Sandbox-test.py       main                                            *)
(*   jira-customfields.py  fetch_all_screens, fetch_field_contexts, main   *)
(***************************************************************************)
EXTENDS Integers, Sequences, FiniteSets, TLC

VARIABLES
  prog,        \* the script this behaviour runs
  \* ---- confluence-pages.py: get_spaces_map, build_page_index
  cpc,         \* position in main
  url,         \* the loop variable `url` of get_spaces_map / iter_pages_v2
  smap,        \* get_spaces_map's `out`: insertion-ordered dict, as a sequence
  scan,        \* space_keys_to_scan, each key with smap's id for it
  si,          \* index in scan of the space being enumerated
  page_index,  \* build_page_index's `pages`, then main's page_index
  seen_ids,    \* build_page_index's `seen_ids`
  \* history of the enumeration (what the server was asked and what it served)
  fetched,     \* URLs fetched so far in the current traversal
  loopSeen,    \* a response of this traversal named an already fetched URL as next
  afterLoop,   \* fetches issued in this traversal after loopSeen became true
  served,      \* every page item served so far, in order, with the space scanned
  nfetch,      \* page-listing fetches issued in this run
  nsfetch,     \* space-listing fetches issued in this run
  truncated,   \* a traversal ended although its last response carried a next link
  \* ---- confluence-pages.py: main, process_batch
  env,         \* MAX_PAGES, PAGE_LIMIT, MAX_WORKERS, FAST_EXIT_ON_FIND
  pos,         \* pages of page_index[:cap] the for loop has taken
  batch,       \* the `pages` argument of the running process_batch
  tasks,       \* one future per page of batch
  rows,        \* main's `rows` (rows_out), each row by its page_id
  counters,    \* main's processed, kept and process_batch's kept_local
  fast_exit_triggered,
  csv,         \* whether CSV_PATH was written, and the rows written to it
  handed,      \* history: every page handed to process_batch, in order
  \* ---- confluence-pages.py: safe_get
  sg,          \* MAX_RETRIES, the loop variable i, last_exc, position, and the
               \* history of what each attempt met
  \* ---- jira-audit.py: get / post
  jr,          \* the helper called, position, nesting depth of the recursion
  \* ---- slack-deactivate.py: main
  sl,          \* the arguments, position, current row and lookup result, the
               \* report, and the history of PATCH requests
  \* ---- List-GH-Repos.py: get_inactive_repos (position, page, inactive_repos; failed: a listing request got a status other than 200)
  gh,
  \* ---- zendesk.py: the ticket fetch loop (server, position, url, all_tickets, page_count)
  zd,
  \* ---- jira-audit.py: collect_last_activity_by_project (position, project_rows, loop index, results, history of searches)
  jl,
  \* ---- Sandbox-test.py: main (position, whether the request form was submitted, status, whether delete_entries / send_alert were called)
  sb,
  \* ---- jira-audit.py: get_paged (server, position, start_at, elements yielded, history of offsets)
  gp,
  \* ---- jira-customfields.py fetch_all_screens / fetch_field_contexts, jira-audit.py /group/bulk loop (function, position, offset, items collected, history of offsets, latest response)
  op,
  \* ---- jira-customfields.py: main for one custom field (arguments, position, the field's row, how the contexts and count requests ended, unused_rows)
  cf,
  \* ---- slack-deactivate.py: scim_request (position, the answers of the server, the code returned, the requests sent)
  sr,
  \* ---- jira-audit.py: collect_screens (position, the endpoints requested, how each request ended, the files written)
  scr

lvars == <<url, smap, scan, si, seen_ids, fetched, loopSeen, afterLoop, served,
           nsfetch, truncated>>
mvars == <<env, pos, batch, tasks, rows, counters, fast_exit_triggered, csv, handed>>
cvars == <<cpc, page_index, nfetch, lvars, mvars>>
\* what the steps of one script leave unchanged: the other scripts' variables
notConfluence == <<sg, jr, sl, gh, zd, jl, sb, gp, op, cf, sr, scr>>
notSafeGet == <<cvars, jr, sl, gh, zd, jl, sb, gp, op, cf, sr, scr>>
notJira == <<cvars, sg, sl, gh, zd, jl, sb, gp, op, cf, sr, scr>>
notSlack == <<cvars, sg, jr, gh, zd, jl, sb, gp, op, cf, sr, scr>>
notGh == <<cvars, sg, jr, sl, zd, jl, sb, gp, op, cf, sr, scr>>
notZendesk == <<cvars, sg, jr, sl, gh, jl, sb, gp, op, cf, sr, scr>>
notJiraActivity == <<cvars, sg, jr, sl, gh, zd, sb, gp, op, cf, sr, scr>>
notSandbox == <<cvars, sg, jr, sl, gh, zd, jl, gp, op, cf, sr, scr>>
notGetPaged == <<cvars, sg, jr, sl, gh, zd, jl, sb, op, cf, sr, scr>>
notOffset == <<cvars, sg, jr, sl, gh, zd, jl, sb, gp, cf, sr, scr>>
notCustomfields == <<cvars, sg, jr, sl, gh, zd, jl, sb, gp, op, sr, scr>>
notScimRequest == <<cvars, sg, jr, sl, gh, zd, jl, sb, gp, op, cf, scr>>
notScreens == <<cvars, sg, jr, sl, gh, zd, jl, sb, gp, op, cf, sr>>
vars == <<prog, cvars, sg, jr, sl, gh, zd, jl, sb, gp, op, cf, sr, scr>>

(***************************************************************************)
(* Bounds of the model.                                                    *)
(***************************************************************************)
MaxFetches == 3        \* page-listing responses the server gives in one run
MaxSpaceFetches == 2   \* space-listing responses the server gives in one run
MaxServed == 3         \* page items the server serves in one run
MaxRetries == 3        \* the largest MAX_RETRIES the environment sets
MaxDepth == 3          \* nested get/post calls counted; deeper ones count as MaxDepth
MaxGhPages == 3        \* repository pages that carry repositories
MaxZdPages == 2        \* ticket pages the incremental export serves
MaxOpFetches == 3      \* page requests of one offset traversal

Min(a, b) == IF a <= b THEN a ELSE b

(***************************************************************************)
(* confluence-pages.py: URLs and links.                                    *)
(***************************************************************************)
NoUrl == -1            \* Python None as the value of `url`
StartUrl == 0          \* v2_url("spaces") / v2_url("pages") with its params

NoLink == [form |-> "none", to |-> NoUrl]      \* no _links.next in the response
EmptyLink == [form |-> "empty", to |-> NoUrl]  \* _links.next = ""
\* Cursor URLs are opaque to the client.  A response names as next either a URL
\* already fetched in this traversal (`known`) or a new one, which gets the next
\* number.  A link is absolute, root-relative ("/wiki/api/v2/...") or relative.
Links(known) ==
  LET new == CHOOSE n \in 0..Cardinality(known) : n \notin known
  IN {NoLink, EmptyLink}
       \cup [form : {"abs", "root", "rel"}, to : known \cup {new}]

\* (mutation) only absolute links are followed
FollowNextAbsOnly(link) ==
  IF link.form = "abs" THEN link.to ELSE NoUrl

\* _follow_next: None for a missing or empty link, else the absolute URL the
\* link resolves to (as is, joined to the origin, or joined to BASE_URL)
FollowNext(link) ==
  IF link.form \in {"none", "empty"} THEN NoUrl ELSE link.to

(***************************************************************************)
(* confluence-pages.py: spaces.                                            *)
(***************************************************************************)
NoId == 0              \* a missing id: pg.get("id", "") = "", sp.get("id") = None
PageIds == {1, 2}
ItemIds == PageIds \cup {NoId}

\* the space entries a space-listing response may carry
SpaceEntries ==
  { [key |-> "A",  id |-> 1,    status |-> "current",  type |-> "global"],
    [key |-> "B",  id |-> 2,    status |-> "current",  type |-> "global"],
    [key |-> "B",  id |-> NoId, status |-> "current",  type |-> "global"],
    [key |-> "~p", id |-> 3,    status |-> "current",  type |-> "personal"],
    [key |-> "X",  id |-> 4,    status |-> "archived", type |-> "global"],
    [key |-> "",   id |-> 5,    status |-> "current",  type |-> "global"] }

\* out[key] = {...} on an insertion-ordered dict: a known key keeps its place
DictPut(d, e) ==
  IF \E i \in 1..Len(d) : d[i].key = e.key
  THEN [i \in 1..Len(d) |-> IF d[i].key = e.key THEN e ELSE d[i]]
  ELSE Append(d, e)

RECURSIVE DictPutAll(_, _)
DictPutAll(d, es) ==
  IF es = <<>> THEN d ELSE DictPutAll(DictPut(d, Head(es)), Tail(es))

DictKeys(d) == [i \in 1..Len(d) |-> d[i].key]
DictHas(d, k) == \E i \in 1..Len(d) : d[i].key = k
\* smap.get(sk) or {}, then .get("id")
DictId(d, k) ==
  IF DictHas(d, k) THEN (CHOOSE e \in {d[i] : i \in 1..Len(d)} : e.key = k).id
  ELSE NoId

RECURSIVE SelectSeq2(_, _)
\* [x for x in s if Keep[x]], Keep a set
SelectSeq2(s, Keep) ==
  IF s = <<>> THEN <<>>
  ELSE IF Head(s) \in Keep
       THEN <<Head(s)>> \o SelectSeq2(Tail(s), Keep)
       ELSE SelectSeq2(Tail(s), Keep)

\* k.startswith("~")
StartsWithTilde(k) == k = "~p"

\* build_page_index, "Filtra espacios permitidos"
AllowedKeys(m, c) ==
  LET keep == { e.key : e \in { m[i] : i \in 1..Len(m) } \cap
                  { e \in SpaceEntries :
                      /\ e.key # ""
                      /\ ~(c.IGNORE_ARCHIVED_SPACES /\ e.status = "archived")
                      /\ ~(c.SKIP_PERSONAL_SPACES
                             /\ (e.type = "personal" \/ StartsWithTilde(e.key))) } }
  IN SelectSeq2(DictKeys(m), keep)

\* build_page_index, "Si el usuario indico SPACE_KEYS, intersecta"
SpaceKeysToScan(m, c) ==
  LET allowed == AllowedKeys(m, c)
      aset == { allowed[i] : i \in 1..Len(allowed) }
  IN IF c.SPACE_KEYS # <<>> THEN SelectSeq2(c.SPACE_KEYS, aset) ELSE allowed

\* the entries of space_keys_to_scan, each with `(smap.get(sk) or {}).get("id")`
WithIds(sc, m) == [i \in 1..Len(sc) |-> [key |-> sc[i], id |-> DictId(m, sc[i])]]

\* the first index >= i of a space of `sc` that has an id ("if not sid: continue"),
\* Len(sc) + 1 when there is none
RECURSIVE NextScannable(_, _)
NextScannable(sc, i) ==
  IF i > Len(sc) THEN i
  ELSE IF sc[i].id # NoId THEN i
  ELSE NextScannable(sc, i + 1)

\* the listing configuration build_page_index reads from the environment
ListingConfigs ==
  [ IGNORE_ARCHIVED_SPACES : BOOLEAN,
    SKIP_PERSONAL_SPACES : BOOLEAN,
    SPACE_KEYS : {<<>>, <<"A", "A">>, <<"B", "A">>} ]

(***************************************************************************)
(* confluence-pages.py: build_page_index, the body of `for pg in           *)
(* iter_pages_v2(...)` applied to the items of one listing response.       *)
(***************************************************************************)
\* (mutation) seen_ids is not consulted
RECURSIVE ConsumeNoSeen(_, _, _, _)
ConsumeNoSeen(items, sk, pages, seen) ==
  IF items = <<>> THEN [pages |-> pages, seen |-> seen]
  ELSE LET pid == Head(items) IN
       IF pid = NoId
       THEN ConsumeNoSeen(Tail(items), sk, pages, seen)
       ELSE ConsumeNoSeen(Tail(items), sk,
                          Append(pages, [id |-> pid, space_key |-> sk]),
                          seen \cup {pid})

RECURSIVE Consume(_, _, _, _)
Consume(items, sk, pages, seen) ==
  IF items = <<>> THEN [pages |-> pages, seen |-> seen]
  ELSE LET pid == Head(items) IN
       IF pid = NoId \/ pid \in seen
       THEN Consume(Tail(items), sk, pages, seen)
       ELSE Consume(Tail(items), sk,
                    Append(pages, [id |-> pid, space_key |-> sk]),
                    seen \cup {pid})

\* the item lists one listing response may carry, `left` items still to serve
PageLists(left) == UNION { [1..n -> ItemIds] : n \in 0..left }

Tag(items, sk) == [i \in 1..Len(items) |-> [id |-> items[i], space_key |-> sk]]

\* the history of one traversal after the fetch of `u` whose response carries
\* `link`, which the client resolved to `nu`
TraversalStep(u, link, nu) ==
  /\ truncated' = (truncated \/ (nu = NoUrl /\ link.form \notin {"none", "empty"}))
  /\ fetched' = fetched \cup {u}
  /\ loopSeen' = (loopSeen \/ nu \in fetched \cup {u})
  /\ afterLoop' = IF loopSeen THEN afterLoop + 1 ELSE afterLoop

\* the traversal ends with that fetch and the next one starts
TraversalEnd(link) ==
  /\ truncated' = (truncated \/ link.form \notin {"none", "empty"})
  /\ fetched' = {}
  /\ loopSeen' = FALSE
  /\ afterLoop' = 0

\* get_spaces_map: one iteration of `while url`, the request succeeding; the
\* function returns `out` when the loop ends
SpacesFetchOk ==
  /\ prog = "spaces" /\ cpc = "spaces"
  /\ nsfetch < MaxSpaceFetches
  /\ \E es \in UNION { [1..n -> SpaceEntries] : n \in 0..1 },
        link \in Links(fetched \cup {url}) :
       LET nu == FollowNext(link)
       IN /\ nsfetch' = nsfetch + 1
          /\ smap' = DictPutAll(smap, es)
          /\ TraversalStep(url, link, nu)
          /\ url' = nu
          /\ cpc' = IF nu # NoUrl THEN "spaces" ELSE "returned"
  /\ UNCHANGED <<prog, notConfluence, page_index, seen_ids, served, nfetch, scan, si, mvars>>

\* safe_get raises in get_spaces_map: the function does not catch it
SpacesFetchFails ==
  /\ prog = "spaces" /\ cpc = "spaces"
  /\ cpc' = "raised"
  /\ UNCHANGED <<prog, notConfluence, page_index, nfetch, lvars, mvars>>

\* the maps get_spaces_map returns to build_page_index in the runs of main
SpaceMaps ==
  LET E(k, i) == CHOOSE e \in SpaceEntries : e.key = k /\ e.id = i
  IN { <<E("A", 1), E("B", 2)>>,
       <<E("B", NoId), E("A", 1)>>,
       <<E("X", 4), E("A", 1)>>,
       <<E("~p", 3), E("", 5)>> }

\* build_page_index up to its first listing request: get_spaces_map returns a map
\* (its traversal is the program "spaces"), the spaces are filtered and the first
\* space that has an id is taken.  The environment is fixed before the run; its
\* values are drawn where the code first reads them.
BuildPageIndexStart ==
  /\ prog = "confluence" /\ cpc = "start"
  /\ \E m \in SpaceMaps, c \in ListingConfigs :
       LET sc == WithIds(SpaceKeysToScan(m, c), m)
           first == NextScannable(sc, 1)
       IN /\ scan' = sc
          /\ si' = first
          /\ IF first <= Len(sc)
             THEN cpc' = "pages" /\ url' = StartUrl
             ELSE cpc' = "indexed" /\ url' = NoUrl
  /\ UNCHANGED <<prog, notConfluence, page_index, seen_ids, served, nfetch, nsfetch, smap,
                 fetched, loopSeen, afterLoop, truncated, mvars>>

\* iter_pages_v2 + the loop body of build_page_index: one iteration of `while url`
\* for the space scan[si], the request succeeding
PagesFetchOk ==
  /\ prog = "confluence" /\ cpc = "pages"
  /\ nfetch < MaxFetches
  /\ \E items \in PageLists(MaxServed - Len(served)), link \in Links(fetched \cup {url}) :
       LET sk  == scan[si].key
           res == Consume(items, sk, page_index, seen_ids)
           nu  == FollowNext(link)
           nxt == NextScannable(scan, si + 1)
       IN /\ page_index' = res.pages
          /\ seen_ids' = res.seen
          /\ served' = served \o Tag(items, sk)
          /\ nfetch' = nfetch + 1
          /\ IF nu # NoUrl
             THEN /\ url' = nu
                  /\ TraversalStep(url, link, nu)
                  /\ UNCHANGED <<cpc, si>>
             ELSE /\ si' = nxt
                  /\ TraversalEnd(link)
                  /\ IF nxt <= Len(scan)
                     THEN cpc' = "pages" /\ url' = StartUrl
                     ELSE cpc' = "indexed" /\ url' = NoUrl
  /\ UNCHANGED <<prog, notConfluence, smap, scan, nsfetch, mvars>>

\* safe_get raises in get_spaces_map or iter_pages_v2: nothing catches it
ListingFetchFails ==
  /\ prog = "confluence" /\ cpc \in {"start", "pages"}
  /\ cpc' = "crashed"
  /\ UNCHANGED <<prog, notConfluence, page_index, nfetch, lvars, mvars>>

(***************************************************************************)
(* confluence-pages.py: main and process_batch.                            *)
(***************************************************************************)
NotWritten == [written |-> FALSE, rows |-> <<>>]
\* `base`: len(rows_out) when process_batch was called
NoBatch == [pages |-> <<>>, trailing |-> FALSE, base |-> 0]
NoEnv == [MAX_PAGES |-> 0, PAGE_LIMIT |-> 1, MAX_WORKERS |-> 1,
          FAST_EXIT_ON_FIND |-> FALSE]

\* the values of the environment main and process_batch read
Envs ==
  [ MAX_PAGES : 0..2, PAGE_LIMIT : 1..2, MAX_WORKERS : 1..2,
    FAST_EXIT_ON_FIND : BOOLEAN ]

\* (mutation) MAX_PAGES is not applied
CapIgnored(e, total_v2) == total_v2

\* cap = MAX_PAGES if MAX_PAGES > 0 else total_v2
Cap(e, total_v2) == IF e.MAX_PAGES > 0 THEN e.MAX_PAGES ELSE total_v2

\* page_index[:cap]
Slice(s, cap) == SubSeq(s, 1, Min(cap, Len(s)))

\* What one request of get_page_restrictions gives: restrictions, none, or an
\* exception (safe_get raised, or the body is not the expected JSON).
LookupResults == {"restricted", "empty", "fail"}

\* get_page_restrictions: attempt A, and attempt B when A gave no restriction or
\* failed; every exception is printed and swallowed, and `out` starts empty
GetPageRestrictions(a, b) ==
  IF a = "restricted" THEN "restricted"
  ELSE IF b = "restricted" THEN "restricted"
  ELSE "empty"

\* process_batch.worker for one page: a, b are the results of the two lookups,
\* j says whether join_names can read the users and groups it is given ("raise":
\* an entry that is no object).  `failed` records that both lookups failed.
Worker(a, b, j) ==
  LET restr == GetPageRestrictions(a, b)
  IN [ st |-> "done",
       res |-> IF restr = "empty" THEN "none"
               ELSE IF j = "raise" THEN "raised" ELSE "row",
       failed |-> (a = "fail" /\ b = "fail"),
       collected |-> FALSE ]

Pending == [st |-> "pending", res |-> "-", failed |-> FALSE, collected |-> FALSE]
Running == [st |-> "running", res |-> "-", failed |-> FALSE, collected |-> FALSE]

NumRunning == Cardinality({i \in 1..Len(tasks) : tasks[i].st = "running"})
AllDone == \A i \in 1..Len(tasks) : tasks[i].st = "done"
AllCollected == \A i \in 1..Len(tasks) : tasks[i].collected

\* main, "2) Aplicar tope duro": build_page_index has returned, its locals are gone
ApplyCap ==
  /\ prog = "confluence" /\ cpc = "indexed"
  /\ \E e \in Envs : env' = e
  /\ cpc' = "loop"
  /\ scan' = <<>> /\ si' = 0 /\ seen_ids' = {} /\ served' = <<>>
  /\ UNCHANGED <<prog, notConfluence, page_index, nfetch, url, smap, fetched, loopSeen, afterLoop,
                 nsfetch, truncated, pos, batch, tasks, rows, counters,
                 fast_exit_triggered, csv, handed>>

\* (mutation) the whole rest of the slice is handed over in one batch
BatchSizeUnlimited(e, left) == left

\* pages of the next batch: the loop calls process_batch when len(batch) >=
\* PAGE_LIMIT, the trailing call takes what is left
BatchSize(e, left) == Min(e.PAGE_LIMIT, left)

\* main, `for p in page_index[:cap]` up to the next call of process_batch: the call
\* in the loop when the batch is full, the trailing call for what is left; then
\* process_batch creates the pool and submits one task per page
TakeBatch ==
  /\ prog = "confluence" /\ cpc = "loop"
  /\ LET todo == Slice(page_index, Cap(env, Len(page_index)))
         k == BatchSize(env, Len(todo) - pos)
     IN /\ k > 0
        /\ batch' = [pages |-> SubSeq(todo, pos + 1, pos + k),
                     trailing |-> (k < env.PAGE_LIMIT), base |-> Len(rows)]
        /\ pos' = pos + k
        /\ tasks' = [i \in 1..k |-> Pending]
        /\ handed' = handed \o SubSeq(todo, pos + 1, pos + k)
        /\ counters' = [counters EXCEPT !.kept_local = 0]
        /\ cpc' = "pool"
  /\ UNCHANGED <<prog, notConfluence, page_index, nfetch, lvars, env, rows, fast_exit_triggered, csv>>

\* main: the for loop ends with an empty batch
LoopEnds ==
  /\ prog = "confluence" /\ cpc = "loop"
  /\ pos = Len(Slice(page_index, Cap(env, Len(page_index))))
  /\ cpc' = "csv"
  /\ UNCHANGED <<prog, notConfluence, page_index, nfetch, lvars, mvars>>

\* (mutation) a pool that starts a thread for every submitted task
PoolUnbounded(running, e) == TRUE

\* ThreadPoolExecutor(max_workers=MAX_WORKERS): a queued task starts only while
\* fewer than MAX_WORKERS threads run one
PoolHasIdleThread(running, e) == running < e.MAX_WORKERS

\* a pool thread takes the oldest queued task; at most MAX_WORKERS threads exist
WorkerStart ==
  /\ prog = "confluence" /\ cpc \in {"pool", "unwind"}
  /\ PoolHasIdleThread(NumRunning, env)
  /\ \E i \in 1..Len(tasks) :
       /\ tasks[i].st = "pending"
       /\ \A j \in 1..(i - 1) : tasks[j].st # "pending"
       /\ tasks' = [tasks EXCEPT ![i] = Running]
  /\ UNCHANGED <<prog, notConfluence, cpc, page_index, nfetch, lvars, env, pos, batch, rows,
                 counters, fast_exit_triggered, csv, handed>>

\* a worker returns or raises
WorkerFinish ==
  /\ prog = "confluence" /\ cpc \in {"pool", "unwind"}
  /\ \E i \in 1..Len(tasks), a \in LookupResults, b \in LookupResults,
        j \in {"ok", "raise"} :
       /\ tasks[i].st = "running"
       /\ tasks' = [tasks EXCEPT ![i] = Worker(a, b, j)]
  /\ UNCHANGED <<prog, notConfluence, cpc, page_index, nfetch, lvars, env, pos, batch, rows,
                 counters, fast_exit_triggered, csv, handed>>

\* (mutation) an append that loses an update: it writes over the last row
RowsAppendLossy(rws, res) ==
  IF rws = <<>> THEN <<res>> ELSE [rws EXCEPT ![Len(rws)] = res]

\* rows_out.append(res), called by the thread that runs process_batch
RowsAppend(rws, res) == Append(rws, res)

\* process_batch, one iteration of `for fut in as_completed(futures)`:
\* fut.result() returns the worker's value or raises the worker's exception
Collect ==
  /\ prog = "confluence" /\ cpc = "pool"
  /\ \E i \in 1..Len(tasks) :
       /\ tasks[i].st = "done" /\ ~tasks[i].collected
       /\ tasks' = [tasks EXCEPT ![i].collected = TRUE]
       /\ CASE tasks[i].res = "raised" ->
                 /\ cpc' = "unwind"
                 /\ UNCHANGED <<rows, counters>>
            [] tasks[i].res = "row" ->
                 /\ rows' = RowsAppend(rows, batch.pages[i].id)
                 /\ counters' = [counters EXCEPT !.kept_local = @ + 1]
                 /\ UNCHANGED cpc
            [] OTHER -> UNCHANGED <<cpc, rows, counters>>
  /\ UNCHANGED <<prog, notConfluence, page_index, nfetch, lvars, env, pos, batch,
                 fast_exit_triggered, csv, handed>>

\* process_batch returns kept_local (the pool's `with` block ends: every worker is
\* done); main adds up and goes on, or breaks on FAST_EXIT_ON_FIND
BatchReturn ==
  /\ prog = "confluence" /\ cpc = "pool"
  /\ AllCollected
  /\ LET kept == counters.kept + counters.kept_local
         fast == (~batch.trailing /\ env.FAST_EXIT_ON_FIND /\ kept > 0)
     IN /\ counters' = [counters EXCEPT !.kept = kept,
                                        !.processed = @ + Len(batch.pages)]
        /\ fast_exit_triggered' = fast
        /\ cpc' = IF fast \/ batch.trailing THEN "csv" ELSE "loop"
  /\ batch' = NoBatch
  /\ tasks' = <<>>
  /\ UNCHANGED <<prog, notConfluence, page_index, nfetch, lvars, env, pos, rows, csv, handed>>

\* (mutation) a pool that is left without waiting: shutdown(wait=False)
ExitPoolNoWait(ts) == TRUE

\* the end of `with ThreadPoolExecutor(...) as ex`: shutdown(wait=True) returns
\* when every submitted task has run
ExitPool(ts) == \A i \in 1..Len(ts) : ts[i].st = "done"

\* the exception of fut.result() leaves the `with` block, which waits for every
\* submitted task, then leaves process_batch and main: nothing catches it
UnwindCrash ==
  /\ prog = "confluence" /\ cpc = "unwind"
  /\ ExitPool(tasks)
  /\ cpc' = "crashed"
  /\ UNCHANGED <<prog, notConfluence, page_index, nfetch, lvars, mvars>>

\* main, "4) CSV"
WriteCsv ==
  /\ prog = "confluence" /\ cpc = "csv"
  /\ csv' = [written |-> TRUE, rows |-> rows]
  /\ cpc' = "done"
  /\ UNCHANGED <<prog, notConfluence, page_index, nfetch, lvars, env, pos, batch, tasks, rows,
                 counters, fast_exit_triggered, handed>>

(***************************************************************************)
(* confluence-pages.py: safe_get.                                          *)
(***************************************************************************)
\* What one sess.get meets: a response that passes raise_for_status, a 4xx other
\* than 429, a 429 whose Retry-After is absent or an integer, a 429 whose
\* Retry-After is not an integer (an HTTP-date), a 5xx, a timeout or connection
\* error.
SgOutcomes == {"ok", "http4xx", "r429", "r429_date", "r5xx", "timeout"}
SgTransient == {"r429", "r429_date", "r5xx", "timeout"}
SgRaised == {"raised_last_exc", "raised_failed", "raised_status", "raised_value"}

\* safe_get after `continue`: when the range is used up, the statements after the
\* loop raise last_exc or the HTTPError "GET failed after ..."
SafeGetLoopEnd(s) ==
  IF s.i > s.MAX_RETRIES
  THEN [s EXCEPT !.pc = IF s.last_exc THEN "raised_last_exc" ELSE "raised_failed"]
  ELSE s

\* safe_get, one iteration of `for i in range(1, attempts + 1)` meeting o
SafeGetStep(s, o) ==
  LET t == [s EXCEPT !.hist = Append(@, o)]
      again == [t EXCEPT !.i = @ + 1]
  IN CASE o = "ok"        -> [t EXCEPT !.pc = "returned"]
       [] o = "http4xx"   -> [t EXCEPT !.pc = "raised_status"]
       [] o = "r429"      -> SafeGetLoopEnd(again)
       [] o = "r429_date" -> [t EXCEPT !.pc = "raised_value"]
       [] o = "r5xx"      -> SafeGetLoopEnd(again)
       [] o = "timeout"   -> SafeGetLoopEnd([again EXCEPT !.last_exc = TRUE])

\* Times are in tenths of a second.  BACKOFF_FACTOR: the default 0.8, or 0.5.
SgBackoffFactors == {5, 8}
\* the Retry-After header of a 429 or 5xx response, in seconds
NoRetryAfter == -1       \* the response carries no Retry-After
SgRetryAfter == {NoRetryAfter, 1, 5}
Max(a, b) == IF a >= b THEN a ELSE b

\* the argument of time.sleep in iteration i, for an outcome that sleeps:
\* 429: max(int(r.headers.get("Retry-After", "2")), 2); 5xx and timeouts:
\* BACKOFF_FACTOR * i
SafeGetWait(s, o, ra) ==
  IF o = "r429" THEN 10 * Max(IF ra = NoRetryAfter THEN 2 ELSE ra, 2)
  ELSE s.BACKOFF_FACTOR * s.i

\* outcomes after which safe_get sleeps, and those that are a response with
\* headers
SgSleeps == {"r429", "r5xx", "timeout"}
SgRetryAfterOf(o) == IF o \in {"r429", "r5xx"} THEN SgRetryAfter ELSE {NoRetryAfter}

SgOff == [MAX_RETRIES |-> 0, BACKOFF_FACTOR |-> 0, i |-> 0, last_exc |-> FALSE,
          pc |-> "off", hist |-> <<>>, waits |-> <<>>]
SgStart == [MAX_RETRIES : 0..MaxRetries, BACKOFF_FACTOR : SgBackoffFactors, i : {1},
            last_exc : {FALSE}, pc : {"loop"}, hist : {<<>>}, waits : {<<>>}]

SafeGetAttempt ==
  /\ prog = "safe_get" /\ sg.pc = "loop"
  /\ sg.i <= sg.MAX_RETRIES
  /\ \E o \in SgOutcomes : \E ra \in SgRetryAfterOf(o) :
       sg' = [SafeGetStep(sg, o) EXCEPT
                !.waits = IF o \in SgSleeps
                          THEN Append(@, [i |-> sg.i, retry_after |-> ra,
                                          wait |-> SafeGetWait(sg, o, ra)])
                          ELSE @]
  /\ UNCHANGED <<prog, notSafeGet>>

\* the range is empty from the start (MAX_RETRIES = 0)
SafeGetNoAttempt ==
  /\ prog = "safe_get" /\ sg.pc = "loop"
  /\ sg.i > sg.MAX_RETRIES
  /\ sg' = SafeGetLoopEnd(sg)
  /\ UNCHANGED <<prog, notSafeGet>>

(***************************************************************************)
(* jira-audit.py: get and post.                                            *)
(***************************************************************************)
\* What one requests.get / requests.post meets; "exception" is a network error
\* raised by requests, "error" a status raise_for_status rejects.
JiraResponses(srv) ==
  IF srv = "always429" THEN {"r429"}
  ELSE {"ok", "r429", "r429_date", "error", "exception"}

JrOff == [fn |-> "get", srv |-> "any", pc |-> "off", depth |-> 0]
JrStart == [fn : {"get", "post"}, srv : {"any", "always429"}, pc : {"call"},
            depth : {0}]

\* get / post up to the 429 test and, for another status, to the end
JiraCall ==
  /\ prog = "jira" /\ jr.pc = "call"
  /\ \E r \in JiraResponses(jr.srv) :
       jr' = [jr EXCEPT !.pc = CASE r = "ok" -> "returned"
                                 [] r = "r429" -> "sleep"
                                 [] OTHER -> "raised"]
  /\ UNCHANGED <<prog, notJira>>

\* after time.sleep: `return get(path, params, api, absolute)`, one level deeper
JiraRetry ==
  /\ prog = "jira" /\ jr.pc = "sleep"
  /\ jr' = [jr EXCEPT !.pc = "call", !.depth = Min(@ + 1, MaxDepth)]
  /\ UNCHANGED <<prog, notJira>>

(***************************************************************************)
(* slack-deactivate.py.                                                    *)
(***************************************************************************)
\* A string that holds an address: its letters (`name`, in lower case), whether
\* it is written in upper case, whether white space surrounds it.
Str(n, up, pad) == [name |-> n, upper |-> up, pad |-> pad]
Lower(x) == [x EXCEPT !.upper = FALSE]     \* str.lower()
Strip(x) == [x EXCEPT !.pad = FALSE]       \* str.strip()
NoStr == Str("", FALSE, FALSE)             \* ""

\* the users a SCIM response may carry: id, userName, emails[].value, active
\* ("none": the attribute is missing)
Users ==
  { [id |-> "U1", userName |-> Str("a", FALSE, FALSE), emails |-> <<>>,
     active |-> "true"],
    [id |-> "U2", userName |-> Str("a", TRUE, FALSE), emails |-> <<>>,
     active |-> "false"],
    [id |-> "U3", userName |-> Str("a", FALSE, TRUE), emails |-> <<>>,
     active |-> "none"],
    [id |-> "U4", userName |-> Str("handle", FALSE, FALSE),
     emails |-> <<Str("a", TRUE, FALSE)>>, active |-> "false"],
    [id |-> "U5", userName |-> Str("a2", FALSE, FALSE),
     emails |-> <<Str("a2", FALSE, FALSE)>>, active |-> "true"],
    [id |-> "", userName |-> Str("a", FALSE, FALSE), emails |-> <<>>,
     active |-> "true"] }
NoUser == [id |-> "", userName |-> NoStr, emails |-> <<>>, active |-> "none"]  \* {}

\* the rows read_rows_from_csv returns: values stripped, email not empty
InputRows ==
  [ email : {Str("a", FALSE, FALSE), Str("a", TRUE, FALSE)},
    scim_id : {"", "U9"} ]
\* the input files: no row, one row, two rows
InputFiles ==
  {<<>>} \cup { <<r>> : r \in InputRows } \cup { <<r, q>> : r \in InputRows, q \in InputRows }

\* What scim_request returns for a GET /Users?filter=...: the status code (599
\* after the retries are used up), whether the body is a JSON object,
\* totalResults and Resources.
ScimLists == {<<>>} \cup { <<u>> : u \in Users }
               \cup { <<u, v>> : u \in {x \in Users : x.id = "U5"},
                                 v \in {x \in Users : x.id \in {"U2", "U5"}} }
ScimResponses ==
  [ code : {200}, dict : {TRUE}, totalResults : 0..1, Resources : ScimLists ]
    \cup [ code : {200}, dict : {FALSE}, totalResults : {0}, Resources : {<<>>} ]
    \cup [ code : {404}, dict : {TRUE}, totalResults : {0}, Resources : {<<>>} ]
    \cup [ code : {599}, dict : {FALSE}, totalResults : {0}, Resources : {<<>>} ]

\* (mutation) a user whose userName contains the local part matches
UserMatchesLocalPart(u, email) ==
  u.userName.name \in {email.name, "a2"}

\* user_matches_email_exact
UserMatchesEmailExact(u, email) ==
  LET target == Strip(Lower(email))
  IN \/ Strip(Lower(u.userName)) = target
     \/ \E k \in 1..Len(u.emails) : Strip(Lower(u.emails[k])) = target

\* the first element of s that satisfies the exact match, NoUser when none does
RECURSIVE FirstMatch(_, _)
FirstMatch(s, email) ==
  IF s = <<>> THEN NoUser
  ELSE IF UserMatchesEmailExact(Head(s), email) THEN Head(s)
  ELSE FirstMatch(Tail(s), email)

Take(s, n) == SubSeq(s, 1, Min(n, Len(s)))

RECURSIVE Uniq(_, _)
\* "Deduplicate while preserving order"
Uniq(s, seen) ==
  IF s = <<>> THEN <<>>
  ELSE IF Head(s) \in seen THEN Uniq(Tail(s), seen)
  ELSE <<Head(s)>> \o Uniq(Tail(s), seen \cup {Head(s)})

DefaultSimilarLimit == 10

\* list_similar_candidates for the response r: the candidates "id|userName|email"
\* (each user of Users has its own), or the text similar_search_failed_http_<code>
ListSimilarCandidates(r) ==
  IF r.code # 200 \/ ~r.dict THEN <<"similar_search_failed">>
  ELSE Take(Uniq([k \in 1..Len(r.Resources) |-> r.Resources[k].id], {}),
            DefaultSimilarLimit)

\* (mutation) the similar output is not re-limited
RelimitNever(sim, limit) == sim

\* main, "Re-limit similar output size"
Relimit(sim, limit) == IF sim # <<>> /\ limit > 0 THEN Take(sim, limit) ELSE sim

\* `lookup_code`: the status the latest lookup request of the row returned
\* (NoCode: the row had no lookup request)
NoCode == 0
NoCur == [scim_id |-> "", note |-> "", active |-> "none", similar |-> <<>>,
          user |-> NoUser, lookup_code |-> NoCode]
Found(u) == [scim_id |-> u.id, note |-> "found_exact", active |-> u.active,
             similar |-> <<>>, user |-> u, lookup_code |-> 200]
NoRow == [email |-> NoStr, scim_id |-> ""]

\* a report row; `provided`, `user` and `similar_found` (the candidates
\* find_user_by_email_exact returned) are kept beside the columns of the CSV
ReportRow(s, action, status, error) ==
  [ email |-> s.row.email, scim_id |-> IF action = "lookup" THEN "" ELSE s.cur.scim_id,
    action |-> action, status |-> status, error |-> error,
    was_active |-> IF s.cur.active = "none" THEN "" ELSE s.cur.active,
    similar_matches |-> Relimit(s.cur.similar, s.similar_limit),
    provided |-> (s.row.scim_id # ""), user |-> s.cur.user,
    similar_found |-> Len(s.cur.similar), lookup_code |-> s.cur.lookup_code ]

\* main, the row is done: the report row is appended and the loop goes on
Reported(s, action, status, error) ==
  [s EXCEPT !.report = Append(@, ReportRow(s, action, status, error)),
            !.pc = "next", !.row = NoRow, !.cur = NoCur]

\* scim_request's max_retries
ScimMaxRetries == 6
ScimTransient == {429, 503}

\* scim_request: `for attempt in range(max_retries)` over what each HTTP request
\* is answered (outs[k]: the status of the k-th); the status it returns and the
\* number of requests it sent
RECURSIVE ScimLoop(_, _)
ScimLoop(outs, k) ==
  IF k > ScimMaxRetries THEN [code |-> 599, attempts |-> ScimMaxRetries]
  ELSE IF outs[k] = 429 \/ (500 <= outs[k] /\ outs[k] <= 599) THEN ScimLoop(outs, k + 1)
  ELSE [code |-> outs[k], attempts |-> k]
\* (mutation) a single request, whose status is returned as it is
ScimRequestOnce(outs) == [code |-> outs[1], attempts |-> 1]

\* scim_request, from its first attempt
ScimRequest(outs) == ScimLoop(outs, 1)

\* the answers the PATCH of deactivate_user may meet: a final status at once or
\* after one 429 / 5xx, or 429 / 5xx to every request
PatchOutcomes ==
  { <<c>> : c \in {200, 204, 404} }
    \cup { <<t, c>> : t \in ScimTransient, c \in {200, 404} }
    \cup { [k \in 1..ScimMaxRetries |-> t] : t \in ScimTransient }

\* deactivate_user for the current row, r being what scim_request returns: the
\* call is added to the history of PATCH calls, with the number of its requests
Patched(s, r) ==
  [s EXCEPT !.patches = Append(@, [scim_id |-> s.cur.scim_id,
                                   email |-> s.row.email,
                                   provided |-> (s.row.scim_id # ""),
                                   user |-> s.cur.user,
                                   rowno |-> Len(s.report) + 1,
                                   attempts |-> r.attempts])]

\* main, `ok, msg = deactivate_user(...)` and the report row after it
Deactivate(s, r) ==
  IF r.code \in {200, 204} THEN Reported(Patched(s, r), "deactivate", "ok", "")
  ELSE Reported(Patched(s, r), "deactivate", "failed", "deactivate_failed")

\* (mutation) --dry-run is not looked at
DecideIgnoringDryRun(s, r) ==
  IF s.cur.scim_id = "" THEN Reported(s, "lookup", "failed", s.cur.note)
  ELSE IF s.skip_already_inactive /\ s.cur.active = "false"
       THEN Reported(s, "skip", "ok", "already_inactive")
  ELSE Deactivate(s, r)

\* (mutation) --skip-already-inactive is not looked at
DecideIgnoringSkip(s, r) ==
  IF s.cur.scim_id = "" THEN Reported(s, "lookup", "failed", s.cur.note)
  ELSE IF s.dry_run THEN Reported(s, "dry_run", "ok", "")
  ELSE Deactivate(s, r)

\* main from `if not scim_id` on, the lookup (if any) being over: r is what the
\* scim_request of deactivate_user returns if it is called
Decide(s, r) ==
  IF s.cur.scim_id = "" THEN Reported(s, "lookup", "failed", s.cur.note)
  ELSE IF s.dry_run THEN Reported(s, "dry_run", "ok", "")
  ELSE IF s.skip_already_inactive /\ s.cur.active = "false"
       THEN Reported(s, "skip", "ok", "already_inactive")
  ELSE Deactivate(s, r)

\* `input` keeps what read_rows_from_csv returned; `rows` is what the for loop
\* has not taken yet
SlOff == [dry_run |-> FALSE, skip_already_inactive |-> FALSE, similar_limit |-> 0,
          pc |-> "off", input |-> <<>>, rows |-> <<>>, row |-> NoRow, cur |-> NoCur,
          report |-> <<>>, patches |-> <<>>, access_code |-> NoCode]
SlStart ==
  { [ dry_run |-> d, skip_already_inactive |-> k, similar_limit |-> l,
      pc |-> "access", input |-> f, rows |-> f, row |-> NoRow, cur |-> NoCur,
      report |-> <<>>, patches |-> <<>>, access_code |-> NoCode ] :
      d \in BOOLEAN, k \in BOOLEAN, l \in {0, 1, 8}, f \in InputFiles }

\* the answers the GET of assert_scim_access may meet
AccessOutcomes ==
  { <<c>> : c \in {200, 401, 403, 404} }
    \cup { <<t, 200>> : t \in ScimTransient }
    \cup { [k \in 1..ScimMaxRetries |-> t] : t \in ScimTransient }

\* assert_scim_access: SystemExit on 401, 403 and any other code >= 400 (the
\* rows are read after it; `input` is what read_rows_from_csv then returns)
SlackAssertAccess ==
  /\ prog = "slack" /\ sl.pc = "access"
  /\ \E outs \in AccessOutcomes :
       LET r == ScimRequest(outs)
       IN sl' = [sl EXCEPT !.access_code = r.code,
                           !.pc = IF r.code >= 400 THEN "aborted" ELSE "next"]
  /\ UNCHANGED <<prog, notSlack>>

\* main, `for r in rows` takes the next row; a row with a scim_id needs no lookup
SlackNextRow ==
  /\ prog = "slack" /\ sl.pc = "next"
  /\ sl.rows # <<>>
  /\ LET r == Head(sl.rows) IN
       sl' = [sl EXCEPT !.rows = Tail(@), !.row = r,
                        !.cur = IF r.scim_id # ""
                                THEN [NoCur EXCEPT !.scim_id = r.scim_id,
                                                   !.note = "provided_scim_id"]
                                ELSE NoCur,
                        !.pc = IF r.scim_id # "" THEN "decide" ELSE "fast"]
  /\ UNCHANGED <<prog, notSlack>>

\* find_user_by_email_exact, "1) Fast path": the request and what follows it up
\* to the next request or the return
SlackFastPath ==
  /\ prog = "slack" /\ sl.pc = "fast"
  /\ \E r \in ScimResponses :
       LET u == IF r.Resources = <<>> THEN NoUser ELSE r.Resources[1]
           s == [sl EXCEPT !.cur.lookup_code = r.code]
       IN sl' = IF r.code # 200 \/ ~r.dict
                THEN [s EXCEPT !.pc = "similar", !.cur.note = "lookup_failed_http"]
                ELSE IF r.totalResults > 0
                THEN IF UserMatchesEmailExact(u, sl.row.email)
                     THEN [s EXCEPT !.pc = "decide", !.cur = Found(u)]
                     ELSE [s EXCEPT !.pc = "similar",
                                    !.cur.note = "no_exact_email_match"]
                ELSE [s EXCEPT !.pc = "fallback"]
  /\ UNCHANGED <<prog, notSlack>>

\* find_user_by_email_exact, "2) Candidate search by local-part"
SlackFallback ==
  /\ prog = "slack" /\ sl.pc = "fallback"
  /\ \E r \in ScimResponses :
       LET u == FirstMatch(r.Resources, sl.row.email)
           s == [sl EXCEPT !.cur.lookup_code = r.code]
       IN sl' = IF r.code # 200 \/ ~r.dict
                THEN [s EXCEPT !.pc = "decide", !.cur.note = "fallback_failed_http"]
                ELSE IF u # NoUser
                THEN [s EXCEPT !.pc = "decide", !.cur = Found(u)]
                ELSE [s EXCEPT !.pc = "similar", !.cur.note = "user_not_found"]
  /\ UNCHANGED <<prog, notSlack>>

\* list_similar_candidates, called by find_user_by_email_exact when it found no
\* exact match
SlackSimilar ==
  /\ prog = "slack" /\ sl.pc = "similar"
  /\ \E r \in ScimResponses :
       sl' = [sl EXCEPT !.pc = "decide", !.cur.similar = ListSimilarCandidates(r)]
  /\ UNCHANGED <<prog, notSlack>>

\* main, the rest of the loop body, with deactivate_user's PATCH if it is sent
SlackDecide ==
  /\ prog = "slack" /\ sl.pc = "decide"
  /\ \E outs \in PatchOutcomes : sl' = Decide(sl, ScimRequest(outs))
  /\ UNCHANGED <<prog, notSlack>>

\* scim_request, session.request raises (no connection, timeout): nothing
\* catches it, the run ends before the report is written (in
\* assert_scim_access: before the rows are read)
SlackRequestRaises ==
  /\ prog = "slack"
  /\ \/ sl.pc \in {"access", "fast", "fallback", "similar"}
     \/ sl.pc = "decide" /\ Len(Decide(sl, ScimRequest(<<200>>)).patches) > Len(sl.patches)
  /\ sl' = [sl EXCEPT !.pc = IF sl.pc = "access" THEN "access_raised" ELSE "crashed"]
  /\ UNCHANGED <<prog, notSlack>>

\* main, the loop is over: the report is written
SlackFinish ==
  /\ prog = "slack" /\ sl.pc = "next"
  /\ sl.rows = <<>>
  /\ sl' = [sl EXCEPT !.pc = "done"]
  /\ UNCHANGED <<prog, notSlack>>

(***************************************************************************)
(* List-GH-Repos.py: get_inactive_repos.                                   *)
(***************************************************************************)
\* What one requests.get of the repository listing meets: status 200 with a list
\* of repositories (each last updated before the threshold or not), status 200
\* with an empty body ([] or {}), another status with a JSON body (GitHub's
\* {"message": ...}), or a body response.json() cannot parse.
GhRepoLists == UNION { [1..n -> BOOLEAN] : n \in 1..2 }
GhResponses ==
  [kind : {"repos"}, repos : GhRepoLists]
    \cup [kind : {"empty", "error", "not_json"}, repos : {<<>>}]

\* the repositories of one page that were last updated before the threshold,
\* each named by its page and its place on the page
RECURSIVE GhInactive(_, _, _)
GhInactive(repos, page, k) ==
  IF k > Len(repos) THEN <<>>
  ELSE (IF repos[k] THEN <<[page |-> page, k |-> k]>> ELSE <<>>)
         \o GhInactive(repos, page, k + 1)

GhOff == [pc |-> "off", page |-> 0, inactive_repos |-> <<>>, failed |-> FALSE]
GhStart == {[pc |-> "loop", page |-> 1, inactive_repos |-> <<>>, failed |-> FALSE]}

\* get_inactive_repos, one iteration of `while True`
GhFetch ==
  /\ prog = "gh" /\ gh.pc = "loop"
  /\ \E r \in GhResponses :
       /\ r.kind = "repos" => gh.page <= MaxGhPages
       /\ gh' = CASE r.kind = "not_json" -> [gh EXCEPT !.pc = "raised"]
                  [] r.kind = "error" -> [gh EXCEPT !.pc = "returned", !.failed = TRUE]
                  [] r.kind = "empty" -> [gh EXCEPT !.pc = "returned"]
                  [] OTHER ->
                       [gh EXCEPT !.page = @ + 1,
                                  !.inactive_repos = @ \o GhInactive(r.repos, gh.page, 1)]
  /\ UNCHANGED <<prog, notGh>>

\* main: the list get_inactive_repos returned is printed
GhMain ==
  /\ prog = "gh" /\ gh.pc = "returned"
  /\ gh' = [gh EXCEPT !.pc = "printed"]
  /\ UNCHANGED <<prog, notGh>>

(***************************************************************************)
(* zendesk.py: the ticket fetch loop.                                      *)
(***************************************************************************)
\* What one requests.get of the incremental export meets.  "ok": status 2xx
\* with a JSON body, carrying tickets, end_of_stream and next_page (absent, the
\* URL just fetched, or a new URL).  The others make requests raise a
\* RequestException: a 4xx other than 429, a 429, a 5xx (raise_for_status), a
\* network error.
ZdTickets == {<<>>, <<1>>, <<2>>}
ZdOk ==
  [kind : {"ok"}, tickets : ZdTickets, end_of_stream : BOOLEAN,
   next_page : {"none", "same", "new"}]
ZdErrors ==
  [kind : {"http4xx", "http429", "http5xx", "network"}, tickets : {<<>>},
   end_of_stream : {FALSE}, next_page : {"none"}]
ZdResponses(srv) ==
  IF srv = "always4xx" THEN {r \in ZdErrors : r.kind = "http4xx"}
  ELSE ZdOk \cup ZdErrors

\* data.get("next_page") for a response to the request of url u
ZdNextPage(r, u) ==
  CASE r.next_page = "none" -> NoUrl
    [] r.next_page = "same" -> u
    [] OTHER -> u + 1

\* `last` records the data of the latest parsed response (none yet: ZdNoData)
ZdNoData == [kind |-> "none", tickets |-> <<>>, end_of_stream |-> FALSE,
             next_page |-> "none"]
ZdOff == [pc |-> "off", srv |-> "any", url |-> NoUrl, all_tickets |-> <<>>,
          page_count |-> 0, last |-> ZdNoData]
ZdStart == [pc : {"request"}, srv : {"any", "always4xx"}, url : {StartUrl},
            all_tickets : {<<>>}, page_count : {0}, last : {ZdNoData}]

\* a loop body that reads next_page before it looks at end_of_stream
ZdParsedCursorFirst(z, r) ==
  LET t == [z EXCEPT !.all_tickets = @ \o r.tickets, !.page_count = @ + 1,
                     !.last = r]
      nu == ZdNextPage(r, z.url)
  IN IF nu # NoUrl THEN [t EXCEPT !.url = nu, !.pc = "request"]
     ELSE [t EXCEPT !.url = nu, !.pc = "fetched"]

\* the loop body after data = response.json(): extend all_tickets, count the
\* page, break on end_of_stream, else url = data.get("next_page")
ZdParsed(z, r) ==
  LET t == [z EXCEPT !.all_tickets = @ \o r.tickets, !.page_count = @ + 1,
                     !.last = r]
      nu == ZdNextPage(r, z.url)
  IN IF r.end_of_stream THEN [t EXCEPT !.pc = "fetched"]
     ELSE [t EXCEPT !.url = nu,
                    !.pc = IF nu = NoUrl THEN "fetched" ELSE "request"]

\* one iteration of `while url` up to `continue`, `break` or the end of the body
ZdRequest ==
  /\ prog = "zendesk" /\ zd.pc = "request"
  /\ \E r \in ZdResponses(zd.srv) :
       /\ r.kind = "ok" => zd.page_count < MaxZdPages
       /\ zd' = IF r.kind # "ok" THEN [zd EXCEPT !.pc = "retry"]
                ELSE ZdParsed(zd, r)
  /\ UNCHANGED <<prog, notZendesk>>

\* the except clause: "Retrying in 60s...", time.sleep(60), continue with the
\* same url
ZdRetry ==
  /\ prog = "zendesk" /\ zd.pc = "retry"
  /\ zd' = [zd EXCEPT !.pc = "request"]
  /\ UNCHANGED <<prog, notZendesk>>

(***************************************************************************)
(* jira-audit.py: collect_last_activity_by_project.                        *)
(***************************************************************************)
\* the project_rows it is given: no project, one, two
JlProjects == [key : {"P", "Q"}, archived : BOOLEAN]
JlProjectLists ==
  {<<>>} \cup { <<p>> : p \in JlProjects }
         \cup { <<p, q>> : p \in JlProjects, q \in {x \in JlProjects : x.key = "Q"} }

\* How post("/search", ...) ends: it returns data with or without an issue,
\* raises requests.HTTPError (raise_for_status), or lets through what
\* requests.post raised (ConnectionError, Timeout: no HTTPError).
JlSearchOutcomes == {"issue", "no_issue", "http_error", "network_error"}

\* the row appended for project p, o being the outcome of the search if one is
\* made
JlRow(p, o) ==
  IF p.archived
  THEN [projectKey |-> p.key, lastIssueUpdated |-> "", note |-> "archived"]
  ELSE CASE o = "issue" ->
              [projectKey |-> p.key, lastIssueUpdated |-> "updated", note |-> ""]
         [] o = "no_issue" ->
              [projectKey |-> p.key, lastIssueUpdated |-> "", note |-> ""]
         [] OTHER ->
              [projectKey |-> p.key, lastIssueUpdated |-> "", note |-> "search_error"]

JlOff == [pc |-> "off", project_rows |-> <<>>, i |-> 0, results |-> <<>>,
          searched |-> <<>>, written |-> FALSE]
JlStart == [pc : {"loop"}, project_rows : JlProjectLists, i : {1}, results : {<<>>},
            searched : {<<>>}, written : {FALSE}]

\* one iteration of `for p in project_rows` for an archived project
JlArchived ==
  /\ prog = "jira_activity" /\ jl.pc = "loop"
  /\ jl.i <= Len(jl.project_rows)
  /\ jl.project_rows[jl.i].archived
  /\ jl' = [jl EXCEPT !.i = @ + 1,
                      !.results = Append(@, JlRow(jl.project_rows[jl.i], "none"))]
  /\ UNCHANGED <<prog, notJiraActivity>>

\* one iteration of `for p in project_rows` with its search; `searched` is the
\* history of the projects a search request was sent for
JlSearch ==
  /\ prog = "jira_activity" /\ jl.pc = "loop"
  /\ jl.i <= Len(jl.project_rows)
  /\ ~jl.project_rows[jl.i].archived
  /\ \E o \in JlSearchOutcomes :
       LET t == [jl EXCEPT !.searched = Append(@, jl.i)]
       IN jl' = IF o = "network_error" THEN [t EXCEPT !.pc = "raised"]
                ELSE [t EXCEPT !.i = @ + 1,
                               !.results = Append(@, JlRow(jl.project_rows[jl.i], o))]
  /\ UNCHANGED <<prog, notJiraActivity>>

\* write_csv("project_last_activity.csv", ...) and return results
JlReturn ==
  /\ prog = "jira_activity" /\ jl.pc = "loop"
  /\ jl.i > Len(jl.project_rows)
  /\ jl' = [jl EXCEPT !.pc = "returned", !.written = TRUE]
  /\ UNCHANGED <<prog, notJiraActivity>>

(***************************************************************************)
(* Sandbox-test.py: main.                                                  *)
(***************************************************************************)
\* what get_status returns: None (no row, no match, or an exception it caught),
\* or the text of the status cell ("-" in the model: get_status not called yet)
SbStatuses == {"None", "Initializing", "Ready", "Failed"}

SbOff == [pc |-> "off", submitted |-> FALSE, status |-> "-",
          delete_called |-> FALSE, alerted |-> FALSE]
SbStart == {[pc |-> "start", submitted |-> FALSE, status |-> "-",
             delete_called |-> FALSE, alerted |-> FALSE]}

\* login, request_instance, fill_request_form: the form is submitted, or a
\* selenium call raises before the Submit click
SbSubmit ==
  /\ prog = "sandbox" /\ sb.pc = "start"
  /\ \E ok \in BOOLEAN :
       sb' = IF ok THEN [sb EXCEPT !.pc = "refresh", !.submitted = TRUE]
             ELSE [sb EXCEPT !.pc = "finally"]
  /\ UNCHANGED <<prog, notSandbox>>

\* time.sleep(1500); refresh(): it returns, or raises after its retries
SbRefresh ==
  /\ prog = "sandbox" /\ sb.pc = "refresh"
  /\ \E ok \in BOOLEAN :
       sb' = [sb EXCEPT !.pc = IF ok THEN "status" ELSE "finally"]
  /\ UNCHANGED <<prog, notSandbox>>

\* status = get_status(...) and the if / elif / else on it, up to the next
\* refresh() or to the finally clause
SbStatus ==
  /\ prog = "sandbox" /\ sb.pc = "status"
  /\ \E st \in SbStatuses :
       sb' = CASE st = "None" ->
                    [sb EXCEPT !.status = st, !.alerted = TRUE, !.pc = "finally"]
               [] st = "Initializing" ->
                    [sb EXCEPT !.status = st, !.pc = "refresh_again"]
               [] st = "Ready" ->
                    [sb EXCEPT !.status = st, !.delete_called = TRUE,
                               !.alerted = TRUE, !.pc = "finally"]
               [] OTHER ->
                    [sb EXCEPT !.status = st, !.alerted = TRUE, !.pc = "finally"]
  /\ UNCHANGED <<prog, notSandbox>>

\* "Initializing": time.sleep(600); refresh(), the last statement of the try
SbRefreshAgain ==
  /\ prog = "sandbox" /\ sb.pc = "refresh_again"
  /\ sb' = [sb EXCEPT !.pc = "finally"]
  /\ UNCHANGED <<prog, notSandbox>>

\* finally: driver.quit()
SbQuit ==
  /\ prog = "sandbox" /\ sb.pc = "finally"
  /\ sb' = [sb EXCEPT !.pc = "quit"]
  /\ UNCHANGED <<prog, notSandbox>>

(***************************************************************************)
(* jira-audit.py: get_paged.                                               *)
(***************************************************************************)
\* get_paged's max_results
GetPagedMaxResults == 100

\* The server: a collection of `total` elements 0 .. total-1 and the largest
\* number of elements it puts in one response (`cap`).  It reports the true total.
GpServers == [total : {0, 1, 100, 101, 120}, cap : {50, 100, 200}]

\* data[result_key] for the request startAt = s, maxResults = m
GpValues(srv, s, m) ==
  LET n == Min(Min(m, srv.cap), IF s < srv.total THEN srv.total - s ELSE 0)
  IN [k \in 1..n |-> s + k - 1]

GpOff == [pc |-> "off", srv |-> [total |-> 0, cap |-> 50], start_at |-> 0,
          out |-> <<>>, offsets |-> <<>>]
GpStart == [pc : {"loop"}, srv : GpServers, start_at : {0}, out : {<<>>},
            offsets : {<<>>}]

\* get_paged, one iteration of `while True`, get returning; out is what the
\* generator has yielded, offsets the history of the startAt values sent
GetPagedFetch ==
  /\ prog = "get_paged" /\ gp.pc = "loop"
  /\ LET values == GpValues(gp.srv, gp.start_at, GetPagedMaxResults)
         t == [gp EXCEPT !.out = @ \o values, !.offsets = Append(@, gp.start_at)]
     IN gp' = IF gp.start_at + GetPagedMaxResults >= gp.srv.total
              THEN [t EXCEPT !.pc = "done"]
              ELSE [t EXCEPT !.start_at = @ + GetPagedMaxResults]
  /\ UNCHANGED <<prog, notGetPaged>>

\* get raises (HTTP error, network error): the generator ends with the exception
GetPagedRaises ==
  /\ prog = "get_paged" /\ gp.pc = "loop"
  /\ gp' = [gp EXCEPT !.pc = "raised", !.offsets = Append(@, gp.start_at)]
  /\ UNCHANGED <<prog, notGetPaged>>

(***************************************************************************)
(* The paginators that ask for a page by its offset and stop on isLast:    *)
(* jira-customfields.py fetch_all_screens and fetch_field_contexts,        *)
(* jira-audit.py collect_admin_like_groups_and_roles (the /group/bulk loop).*)
(***************************************************************************)
OpFunctions == {"fetch_all_screens", "fetch_field_contexts", "group_bulk"}

\* What one page request is answered: `n` values, isLast (true, false, or not in
\* the body) and the maxResults the server echoes (or none).
OpResponses ==
  [n : 0..2, isLast : {"true", "false", "missing"}, has_max : BOOLEAN,
   maxResults : {0, 50}]

\* data.get("isLast", True)
OpIsLast(r) == r.isLast # "false"

\* g.get("maxResults", 50)
OpMaxResults(r) == IF r.has_max THEN r.maxResults ELSE 50

\* the loop ends after the response r
OpBreaks(fn, r) ==
  IF fn = "group_bulk" THEN OpIsLast(r) ELSE OpIsLast(r) \/ r.n = 0

\* the offset of the next request
OpAdvance(fn, start, r) ==
  IF fn = "group_bulk" THEN start + OpMaxResults(r) ELSE start + r.n

OpOff == [fn |-> "fetch_all_screens", pc |-> "off", start_at |-> 0, count |-> 0,
          offsets |-> <<>>, last |-> [n |-> 0, isLast |-> "missing"]]
OpStart == [fn : OpFunctions, pc : {"loop"}, start_at : {0}, count : {0},
            offsets : {<<>>}, last : {[n |-> 0, isLast |-> "missing"]}]

\* one iteration of `while True`, the request succeeding; count is the length of
\* results / contexts / groups, offsets the history of the offsets sent, last
\* the values and isLast of the latest response
OpFetch ==
  /\ prog = "offset" /\ op.pc = "loop"
  /\ Len(op.offsets) < MaxOpFetches
  /\ \E r \in OpResponses :
       LET t == [op EXCEPT !.count = @ + r.n,
                           !.offsets = Append(@, op.start_at),
                           !.last = [n |-> r.n, isLast |-> r.isLast]]
       IN op' = IF OpBreaks(op.fn, r) THEN [t EXCEPT !.pc = "done"]
                ELSE [t EXCEPT !.start_at = OpAdvance(op.fn, op.start_at, r)]
  /\ UNCHANGED <<prog, notOffset>>

\* get_json / get raises: the function ends with the exception
OpRaises ==
  /\ prog = "offset" /\ op.pc = "loop"
  /\ op' = [op EXCEPT !.pc = "raised", !.offsets = Append(@, op.start_at)]
  /\ UNCHANGED <<prog, notOffset>>

(***************************************************************************)
(* jira-customfields.py: main, for one custom field.                       *)
(***************************************************************************)
\* How fetch_field_contexts(s, fid) ends: it returns contexts, returns none,
\* raises requests.HTTPError (raise_for_status), raises another exception (a
\* connection error, a body that is no JSON).
CfContextOutcomes == {"some", "none", "http_error", "other_error"}
\* How jql_count_for_field(s, fid) ends: a total > 0, a total of 0, an
\* HTTPError, another exception.
CfCountOutcomes == {"positive", "zero", "http_error", "other_error"}

\* is_unused(r)
IsUnused(skip_screens, check_data, r) ==
  LET screen_ok  == IF ~skip_screens THEN r.onAnyScreen = "No" ELSE TRUE
      context_ok == r.hasContext = "No"
      data_ok    == IF ~check_data THEN TRUE ELSE r.hasData = "No"
  IN IF skip_screens THEN context_ok /\ data_ok
     ELSE screen_ok /\ context_ok /\ data_ok

CfNoRow == [onAnyScreen |-> "", hasContext |-> "", hasData |-> ""]
CfOff == [pc |-> "off", skip_screens |-> FALSE, check_data |-> FALSE,
          row |-> CfNoRow, ctx |-> "-", cnt |-> "-", unused_rows |-> <<>>]
CfStart == [pc : {"screens"}, skip_screens : BOOLEAN, check_data : BOOLEAN,
            row : {CfNoRow}, ctx : {"-"}, cnt : {"-"}, unused_rows : {<<>>}]

\* main, "2) Screens (optional)": the field is on a screen or not, or the walk
\* is skipped
CfScreens ==
  /\ prog = "customfields" /\ cf.pc = "screens"
  /\ \E on \in BOOLEAN :
       cf' = [cf EXCEPT !.pc = "contexts",
                        !.row.onAnyScreen = IF cf.skip_screens THEN "Unknown"
                                            ELSE IF on THEN "Yes" ELSE "No"]
  /\ UNCHANGED <<prog, notCustomfields>>

\* main, "3) Contexts": an HTTPError is printed and ctxs = []
CfContexts ==
  /\ prog = "customfields" /\ cf.pc = "contexts"
  /\ \E o \in CfContextOutcomes :
       cf' = IF o = "other_error" THEN [cf EXCEPT !.pc = "raised", !.ctx = o]
             ELSE [cf EXCEPT !.ctx = o,
                             !.row.hasContext = IF o = "some" THEN "Yes" ELSE "No",
                             !.pc = IF cf.check_data THEN "data" ELSE "decide"]
  /\ UNCHANGED <<prog, notCustomfields>>

\* main, "4) Optional data probe": an HTTPError is printed and cnt = 0
CfData ==
  /\ prog = "customfields" /\ cf.pc = "data"
  /\ \E o \in CfCountOutcomes :
       cf' = IF o = "other_error" THEN [cf EXCEPT !.pc = "raised", !.cnt = o]
             ELSE [cf EXCEPT !.cnt = o,
                             !.row.hasData = IF o = "positive" THEN "Yes" ELSE "No",
                             !.pc = "decide"]
  /\ UNCHANGED <<prog, notCustomfields>>

\* main, "5) Decide unused" and "6) Write CSVs"
CfDecide ==
  /\ prog = "customfields" /\ cf.pc = "decide"
  /\ cf' = [cf EXCEPT !.pc = "written",
                      !.unused_rows = IF IsUnused(cf.skip_screens, cf.check_data, cf.row)
                                      THEN <<cf.row>> ELSE <<>>]
  /\ UNCHANGED <<prog, notCustomfields>>

(***************************************************************************)
(* slack-deactivate.py: scim_request, one call.                            *)
(***************************************************************************)
\* What the server answers to the requests of one call: n times 429 or 5xx,
\* then a final status; or 429 / 5xx to every request (also in turns).
TransientRun(n, t) == [k \in 1..n |-> t]
ScimAnswers ==
  { TransientRun(n, t) \o <<c>> :
      n \in 0..(ScimMaxRetries - 1), t \in ScimTransient, c \in {200, 401, 404} }
    \cup { TransientRun(ScimMaxRetries, t) : t \in ScimTransient }
    \cup { [k \in 1..ScimMaxRetries |-> IF k % 2 = 1 THEN 429 ELSE 500] }

SrOff == [pc |-> "off", answers |-> <<>>, code |-> NoCode, attempts |-> 0]
SrStart == [pc : {"call"}, answers : ScimAnswers, code : {NoCode}, attempts : {0}]

\* scim_request runs and returns (code, data, resp)
ScimRequestCall ==
  /\ prog = "scim_request" /\ sr.pc = "call"
  /\ LET r == ScimRequest(sr.answers)
     IN sr' = [sr EXCEPT !.pc = "returned", !.code = r.code, !.attempts = r.attempts]
  /\ UNCHANGED <<prog, notScimRequest>>

(***************************************************************************)
(* jira-audit.py: collect_screens.                                         *)
(***************************************************************************)
\* How get("/screens", api=...) ends: it returns JSON of the shape the
\* endpoint documents (v3: a dict whose "values" is a list; v2: a list), JSON
\* of another shape, or raises requests.HTTPError (raise_for_status), or
\* raises another exception (connection error, timeout, body that is no JSON).
ScreensOutcomes == {"list", "other_shape", "http_error", "other_error"}

\* `tried`: the api versions requested; `v3`, `v2`: how each request ended;
\* csv_from: the version screens.csv was written from
ScOff == [pc |-> "off", tried |-> <<>>, v3 |-> "-", v2 |-> "-", csv_from |-> "-",
          raw |-> FALSE, error_json |-> FALSE]
ScStart == {[pc |-> "v3", tried |-> <<>>, v3 |-> "-", v2 |-> "-", csv_from |-> "-",
             raw |-> FALSE, error_json |-> FALSE]}

\* collect_screens after get(..., api) has ended with outcome o: the list is
\* written to screens.csv; another shape goes to screens_raw.json and, for v3,
\* on to v2; an HTTPError is caught by the except clause of the whole body
AfterScreens(s, api, o) ==
  LET t == [s EXCEPT !.tried = Append(@, api)]
  IN CASE o = "list"        -> [t EXCEPT !.pc = "returned", !.csv_from = api]
       [] o = "other_shape" -> [t EXCEPT !.raw = TRUE,
                                         !.pc = IF api = "3" THEN "v2" ELSE "returned"]
       [] o = "http_error"  -> [t EXCEPT !.error_json = TRUE, !.pc = "returned"]
       [] OTHER             -> [t EXCEPT !.pc = "raised"]

\* data3 = get("/screens", api="3") and what follows it
ScreensV3 ==
  /\ prog = "screens" /\ scr.pc = "v3"
  /\ \E o \in ScreensOutcomes : scr' = [AfterScreens(scr, "3", o) EXCEPT !.v3 = o]
  /\ UNCHANGED <<prog, notScreens>>

\* data2 = get("/screens", api="2") and what follows it
ScreensV2 ==
  /\ prog = "screens" /\ scr.pc = "v2"
  /\ \E o \in ScreensOutcomes : scr' = [AfterScreens(scr, "2", o) EXCEPT !.v2 = o]
  /\ UNCHANGED <<prog, notScreens>>

CStart(pc, u) ==
  /\ cpc = pc
  /\ url = u
  /\ smap = <<>>
  /\ scan = <<>>
  /\ si = 0
  /\ page_index = <<>>
  /\ seen_ids = {}
  /\ fetched = {}
  /\ loopSeen = FALSE
  /\ afterLoop = 0
  /\ served = <<>>
  /\ nfetch = 0
  /\ nsfetch = 0
  /\ truncated = FALSE
  /\ env = NoEnv
  /\ pos = 0
  /\ batch = NoBatch
  /\ tasks = <<>>
  /\ rows = <<>>
  /\ counters = [processed |-> 0, kept |-> 0, kept_local |-> 0]
  /\ fast_exit_triggered = FALSE
  /\ csv = NotWritten
  /\ handed = <<>>

Init ==
  /\ prog \in {"spaces", "confluence", "safe_get", "jira", "slack", "gh", "zendesk", "jira_activity", "sandbox", "get_paged", "offset", "customfields", "scim_request", "screens"}
  /\ CASE prog = "spaces" -> CStart("spaces", StartUrl)
       [] prog = "confluence" -> CStart("start", NoUrl)
       [] OTHER -> CStart("off", NoUrl)
  /\ IF prog = "safe_get" THEN sg \in SgStart ELSE sg = SgOff
  /\ IF prog = "jira" THEN jr \in JrStart ELSE jr = JrOff
  /\ IF prog = "slack" THEN sl \in SlStart ELSE sl = SlOff
  /\ IF prog = "gh" THEN gh \in GhStart ELSE gh = GhOff
  /\ IF prog = "zendesk" THEN zd \in ZdStart ELSE zd = ZdOff
  /\ IF prog = "jira_activity" THEN jl \in JlStart ELSE jl = JlOff
  /\ IF prog = "sandbox" THEN sb \in SbStart ELSE sb = SbOff
  /\ IF prog = "get_paged" THEN gp \in GpStart ELSE gp = GpOff
  /\ IF prog = "offset" THEN op \in OpStart ELSE op = OpOff
  /\ IF prog = "customfields" THEN cf \in CfStart ELSE cf = CfOff
  /\ IF prog = "scim_request" THEN sr \in SrStart ELSE sr = SrOff
  /\ IF prog = "screens" THEN scr \in ScStart ELSE scr = ScOff

Next ==
  \/ SpacesFetchOk
  \/ SpacesFetchFails
  \/ BuildPageIndexStart
  \/ PagesFetchOk
  \/ ListingFetchFails
  \/ ApplyCap
  \/ TakeBatch
  \/ LoopEnds
  \/ WorkerStart
  \/ WorkerFinish
  \/ Collect
  \/ BatchReturn
  \/ UnwindCrash
  \/ WriteCsv
  \/ SafeGetAttempt
  \/ SafeGetNoAttempt
  \/ JiraCall
  \/ JiraRetry
  \/ SlackAssertAccess
  \/ SlackNextRow
  \/ SlackFastPath
  \/ SlackFallback
  \/ SlackSimilar
  \/ SlackDecide
  \/ SlackRequestRaises
  \/ SlackFinish
  \/ GhFetch
  \/ GhMain
  \/ ZdRequest
  \/ ZdRetry
  \/ JlArchived
  \/ JlSearch
  \/ JlReturn
  \/ SbSubmit
  \/ SbRefresh
  \/ SbStatus
  \/ SbRefreshAgain
  \/ SbQuit
  \/ GetPagedFetch
  \/ GetPagedRaises
  \/ OpFetch
  \/ OpRaises
  \/ CfScreens
  \/ CfContexts
  \/ CfData
  \/ CfDecide
  \/ ScimRequestCall
  \/ ScreensV3
  \/ ScreensV2

Spec == Init /\ [][Next]_vars

\* the scripts are sequential programs that keep running: no step is put off forever
FairSpec == Spec /\ WF_vars(Next)

(***************************************************************************)
(* Properties of the Confluence enumeration.                               *)
(***************************************************************************)
RECURSIVE PickAt(_, _, _)
\* the subsequence of `log` at the positions `keep`, from position i on
PickAt(log, keep, i) ==
  IF i > Len(log) THEN <<>>
  ELSE (IF i \in keep THEN <<log[i]>> ELSE <<>>) \o PickAt(log, keep, i + 1)

\* the items of `log` whose id is in `ids`, each id at its first occurrence only
FirstSeen(log, ids) ==
  PickAt(log,
         { i \in 1..Len(log) :
             /\ log[i].id \in ids
             /\ \A j \in 1..(i - 1) : log[j].id # log[i].id },
         1)

\* C1: once a listing response names as next a URL already fetched in the same
\* traversal, at most one further fetch is issued in that traversal.
C1_LoopStopsWithinOneFetch == loopSeen => afterLoop <= 1

\* C2 as stated: when build_page_index returns (every request having succeeded),
\* no traversal was cut short and the index is the first-seen deduplication, by
\* id, of all the items served.
C2_IndexIsDedupOfAllItems ==
  (prog = "confluence" /\ cpc = "indexed")
    => (~truncated /\ page_index = FirstSeen(served, ItemIds))

\* C2 amended: the traversal of a space goes on exactly while the last response
\* carried a next link, and when build_page_index returns the index is the
\* first-seen deduplication, by id, of all the served items that carry an id.
C2_IndexIsDedupOfItemsWithId ==
  /\ (prog = "confluence" /\ cpc = "pages") => url # NoUrl
  /\ (prog = "confluence" /\ cpc = "indexed")
       => (~truncated /\ page_index = FirstSeen(served, PageIds))

\* the index is complete after several listing pages over two spaces, with an
\* item dropped as a duplicate
C2_Witness ==
  /\ prog = "confluence" /\ cpc = "indexed"
  /\ nfetch >= 3
  /\ Len(page_index) = 2
  /\ Len(served) = 3
  /\ page_index[1].space_key # page_index[2].space_key

\* C3: during and after the enumeration every page id served so far is in the
\* index exactly once, with the space of its first occurrence and at the rank of
\* its first occurrence among the ids; an id not served is not in the index.
C3_DedupFirstOccurrence ==
  (prog = "confluence" /\ cpc \in {"pages", "indexed"}) =>
    \A id \in PageIds :
      LET occ == { i \in 1..Len(served) : served[i].id = id }
          idx == { k \in 1..Len(page_index) : page_index[k].id = id }
      IN IF occ = {} THEN idx = {}
         ELSE LET first == CHOOSE i \in occ : \A j \in occ : i <= j
                  rank == Cardinality({ served[j].id : j \in 1..first } \cap PageIds)
              IN /\ idx = {rank}
                 /\ page_index[rank].space_key = served[first].space_key

\* a page id served in two different scanned spaces, the enumeration finished
C3_Witness ==
  /\ prog = "confluence" /\ cpc = "indexed"
  /\ \E i, j \in 1..Len(served) :
       /\ i < j
       /\ served[i].id = served[j].id
       /\ served[i].id \in PageIds
       /\ served[i].space_key # served[j].space_key
  /\ Len(page_index) = 2

C7_FanOutIsolation ==
  (\E i \in 1..Len(tasks) : tasks[i].res = "raised")
    => cpc \notin {"unwind", "crashed"}

\* C8: a page whose two restriction lookups both failed does not get the outcome
\* of a page without restrictions.
C8_FailedLookupIsNotEmpty ==
  \A i \in 1..Len(tasks) : tasks[i].failed => tasks[i].res # "none"


(***************************************************************************)
(* Properties of the retry helpers.                                        *)
(***************************************************************************)
\* C4: with MAX_RETRIES >= 1, safe_get keeps trying while fewer than MAX_RETRIES
\* attempts have failed transiently, returns as soon as an attempt succeeds,
\* and after MAX_RETRIES transient failures has raised without a further attempt.
C4_RetryBudget ==
  (prog = "safe_get" /\ sg.MAX_RETRIES >= 1) =>
    LET n == Len(sg.hist)
        allTransient == \A k \in 1..n : sg.hist[k] \in SgTransient
    IN /\ n <= sg.MAX_RETRIES
       /\ (allTransient /\ n < sg.MAX_RETRIES) => sg.pc = "loop"
       /\ (n > 0 /\ sg.hist[n] = "ok") => sg.pc = "returned"
       /\ (allTransient /\ n = sg.MAX_RETRIES) => sg.pc \in SgRaised

\* C5: when the server answers 429 to every attempt, a call of get or post ends.
C5_Always429Ends ==
  (prog = "jira" /\ jr.srv = "always429") ~> (jr.pc \in {"returned", "raised"})


(***************************************************************************)
(* Properties of slack-deactivate.py.                                      *)
(***************************************************************************)
\* C9: with --dry-run no PATCH request is sent, whatever the lookups return and
\* whether or not the row carries a scim_id, and every row that resolves to a
\* scim_id (given in the row, or the id of the user the lookup found) is
\* reported with that id and the action dry_run.
C9_DryRunNeverPatches ==
  (prog = "slack" /\ sl.dry_run) =>
    /\ sl.patches = <<>>
    /\ \A k \in 1..Len(sl.report) :
         LET row == sl.report[k]
         IN /\ row.action # "deactivate"
            /\ (row.provided \/ row.user.id # "") =>
                 /\ row.action = "dry_run"
                 /\ row.scim_id # ""
                 /\ row.provided \/ row.scim_id = row.user.id

\* a dry run over two rows, one with a scim_id and one whose user the lookup
\* found, has ended
C9_Witness ==
  /\ prog = "slack" /\ sl.dry_run /\ sl.pc = "done"
  /\ \E k \in 1..Len(sl.report) : sl.report[k].provided
  /\ \E k \in 1..Len(sl.report) :
       ~sl.report[k].provided /\ sl.report[k].user.id # ""

\* x and y are the same text up to the case of the letters
EqualIgnoringCase(x, y) ==
  x.name = y.name /\ x.pad = y.pad
\* x and y are the same text up to the case of the letters and to the white
\* space around them
EqualIgnoringCaseAndPadding(x, y) ==
  x.name = y.name

\* the rows and PATCH requests that say a user was found by the lookup
FoundClaims ==
  { [scim_id |-> sl.patches[k].scim_id, email |-> sl.patches[k].email,
     user |-> sl.patches[k].user] :
      k \in {j \in 1..Len(sl.patches) : ~sl.patches[j].provided} }
  \cup
  { [scim_id |-> sl.report[k].scim_id, email |-> sl.report[k].email,
     user |-> sl.report[k].user] :
      k \in {j \in 1..Len(sl.report) :
               ~sl.report[j].provided /\ sl.report[j].action # "lookup"} }

\* a row that lists similar candidates is a failed lookup, not a found user
SimilarNeverFound ==
  \A k \in 1..Len(sl.report) :
    sl.report[k].similar_matches # <<>> =>
      sl.report[k].action = "lookup" /\ sl.report[k].scim_id = ""

C11_ListingErrorSurfaced ==
  (prog = "gh" /\ gh.failed /\ gh.page > 1) => gh.pc \notin {"returned", "printed"}


(***************************************************************************)
(* Properties of zendesk.py.                                               *)
(***************************************************************************)
\* C12: when the ticket-listing requests fail with a non-retryable HTTP error (a
\* 4xx other than 429), the fetch loop ends: the same URL is not requested again
\* and again for ever.
C12_NonRetryableErrorEnds ==
  (prog = "zendesk" /\ zd.srv = "always4xx") ~> (zd.pc \in {"fetched", "raised"})


(***************************************************************************)
(* Properties of jira-audit.py: collect_last_activity_by_project.          *)
(***************************************************************************)
\* C13: collect_last_activity_by_project gives one row per input project, in input
\* order; an archived project gets the note archived and no search request; a
\* search that fails (HTTP error or network failure) is recorded in the note of
\* its project and the projects after it are still processed: the function does
\* not end with the exception.
C13_PerProjectPartialFailure ==
  prog = "jira_activity" =>
    /\ jl.pc # "raised"
    /\ \A k \in 1..Len(jl.results) :
         /\ jl.results[k].projectKey = jl.project_rows[k].key
         /\ jl.project_rows[k].archived =>
              jl.results[k].note = "archived"
                /\ \A j \in 1..Len(jl.searched) : jl.searched[j] # k
    /\ jl.pc = "returned" => Len(jl.results) = Len(jl.project_rows)


(***************************************************************************)
(* Properties of confluence-pages.py: the fast exit.                       *)
(***************************************************************************)
\* a page with a restriction has been found: its worker has returned a row
RestrictionFound ==
  rows # <<>> \/ \E i \in 1..Len(tasks) : tasks[i].st = "done" /\ tasks[i].res = "row"

\* a worker starts in this step: a page has its restrictions queried
SomeWorkerStarts ==
  \E i \in 1..Len(tasks') :
    tasks'[i].st = "running" /\ (i > Len(tasks) \/ tasks[i].st = "pending")

\* C14: with FAST_EXIT_ON_FIND, once the restricted outcome of a page is obtained
\* no further page has its restrictions queried, and after the fast exit the CSV
\* is written with the rows found so far.
C14_FastExitStopsQuerying ==
  /\ [][(prog = "confluence" /\ env.FAST_EXIT_ON_FIND /\ RestrictionFound)
          => ~SomeWorkerStarts]_vars
  /\ []((prog = "confluence" /\ fast_exit_triggered) =>
          (cpc \in {"csv", "done"} /\ (cpc = "done" => csv.rows = rows)))


(***************************************************************************)
(* Properties of slack-deactivate.py: --skip-already-inactive.             *)
(***************************************************************************)
\* the PATCH calls made for report row k
PatchesOfRow(k) == {j \in 1..Len(sl.patches) : sl.patches[j].rowno = k}

\* the report rows of users the lookup found (with an id)
FoundRows ==
  {k \in 1..Len(sl.report) : ~sl.report[k].provided /\ sl.report[k].user.id # ""}

\* with --skip-already-inactive and no --dry-run: a found user whose active is
\* false is sent no PATCH and reported as skip / already_inactive; a found user
\* whose active is true or unknown has one deactivate_user call, of at least 1 and
\* at most `most` PATCH requests
SkipAlreadyInactive(most) ==
  (prog = "slack" /\ sl.skip_already_inactive /\ ~sl.dry_run) =>
    /\ \A j \in 1..Len(sl.patches) :
         ~sl.patches[j].provided => sl.patches[j].user.active # "false"
    /\ \A k \in FoundRows :
         IF sl.report[k].user.active = "false"
         THEN /\ sl.report[k].action = "skip"
              /\ sl.report[k].error = "already_inactive"
              /\ PatchesOfRow(k) = {}
         ELSE /\ sl.report[k].action = "deactivate"
              /\ Cardinality(PatchesOfRow(k)) = 1
              /\ \A j \in PatchesOfRow(k) :
                   /\ sl.patches[j].scim_id = sl.report[k].scim_id
                   /\ sl.patches[j].attempts >= 1
                   /\ sl.patches[j].attempts <= most

\* C15 as stated: with --skip-already-inactive (and no --dry-run), a user whose
\* lookup returned active = false is never sent a PATCH and is reported with
\* action skip and error already_inactive; a user whose active state is true or
\* unknown is sent exactly one PATCH request.
C15_SkipOrExactlyOnePatch == SkipAlreadyInactive(1)

\* C15 (amended): as above, but the user whose active state is true or unknown
\* gets exactly one deactivate_user call, which sends between one and
\* max_retries PATCH requests (the request is repeated after a 429 or a 5xx).
C15_SkipOrOnePatchCall == SkipAlreadyInactive(ScimMaxRetries)

\* a run with --skip-already-inactive has skipped an inactive user and has
\* deactivated an active one whose PATCH was repeated
C15_Witness ==
  /\ prog = "slack" /\ sl.skip_already_inactive /\ ~sl.dry_run /\ sl.pc = "done"
  /\ \E k \in FoundRows : sl.report[k].action = "skip"
  /\ \E k \in FoundRows :
       /\ sl.report[k].action = "deactivate"
       /\ \E j \in PatchesOfRow(k) : sl.patches[j].attempts > 1


(***************************************************************************)
(* Properties of Sandbox-test.py.                                          *)
(***************************************************************************)
\* C16: every run of main that submits an instance request and reads its status
\* has invoked delete_entries for the instance when the driver quits, whatever
\* get_status returned.
C16_SubmittedInstanceTornDown ==
  (prog = "sandbox" /\ sb.pc = "quit" /\ sb.submitted /\ sb.status \in SbStatuses)
    => sb.delete_called


C18_GetPagedComplete ==
  (prog = "get_paged" /\ gp.pc = "done") =>
    gp.out = [k \in 1..gp.srv.total |-> k - 1]


(***************************************************************************)
(* Properties of the paginators.                                           *)
(***************************************************************************)
\* C19: in the paginators that have a continuation signal, a page with no item
\* whose signal says that more pages exist does not end the traversal.  For
\* iter_pages_v2 and get_spaces_map: no traversal ends on a response that carries
\* a next link; for fetch_all_screens and fetch_field_contexts: no traversal ends
\* on a response without values whose isLast is false.
C19_EmptyPageIsNotEnd ==
  /\ prog \in {"spaces", "confluence"} => ~truncated
  /\ (prog = "offset" /\ op.fn \in {"fetch_all_screens", "fetch_field_contexts"}) =>
       ~(op.pc = "done" /\ op.last.n = 0 /\ op.last.isLast = "false")

\* s is strictly increasing
StrictlyIncreasing(s) == \A i \in 1..Len(s), j \in 1..Len(s) : i < j => s[i] < s[j]

\* C20: within one traversal of get_paged, fetch_all_screens, fetch_field_contexts
\* and the /group/bulk loop, the offset sent strictly increases from one fetch to
\* the next, whatever the server answers: no offset is requested twice.
C20_OffsetsStrictlyIncrease ==
  /\ prog = "get_paged" => StrictlyIncreasing(gp.offsets)
  /\ prog = "offset" => StrictlyIncreasing(op.offsets)

\* C21: in the Zendesk export, once a listing response says end_of_stream, its
\* tickets are the last ones of all_tickets and the loop is over (no request
\* is pending or will be retried), whatever next_page that response carries.
C21_EndOfStreamBeatsCursor ==
  (prog = "zendesk" /\ zd.last.end_of_stream) =>
     /\ zd.pc = "fetched"
     /\ Len(zd.all_tickets) >= Len(zd.last.tickets)
     /\ SubSeq(zd.all_tickets, Len(zd.all_tickets) - Len(zd.last.tickets) + 1,
               Len(zd.all_tickets)) = zd.last.tickets

\* the export ended on a page with tickets, end_of_stream and a new next_page
C21_Witness ==
  /\ prog = "zendesk" /\ zd.pc = "fetched"
  /\ zd.last.end_of_stream /\ zd.last.next_page = "new"
  /\ zd.last.tickets # <<>> /\ zd.page_count = 2

\* the slice main iterates over: page_index[:cap]
Todo == Slice(page_index, Cap(env, Len(page_index)))
IsPrefix(s, t) == Len(s) <= Len(t) /\ s = SubSeq(t, 1, Len(s))

\* the parts of C22 that do not depend on how the run ends: a batch has at most
\* PAGE_LIMIT pages, and the pages handed to process_batch are the first ones
\* of page_index[:cap], each position once and in order (so none beyond cap)
BatchesWithinSlice ==
  /\ Len(batch.pages) <= env.PAGE_LIMIT
  /\ IsPrefix(handed, Todo)
  /\ pos = Len(handed)

\* C22 as stated: a run that ends has handed every page of page_index[:cap] to
\* process_batch exactly once, in batches of at most PAGE_LIMIT, and without a
\* fast exit processed = min(cap, index size).
C22_EveryPageHandedOnce ==
  prog = "confluence" =>
    /\ BatchesWithinSlice
    /\ cpc = "done" => handed = Todo
    /\ (cpc = "done" /\ ~fast_exit_triggered)
         => counters.processed = Min(Cap(env, Len(page_index)), Len(page_index))

\* C22 amended: the pages handed over are always a prefix of page_index[:cap]
\* in batches of at most PAGE_LIMIT; a run that writes the CSV without a fast
\* exit has handed over the whole slice and processed = min(cap, index size);
\* after a fast exit processed counts the pages handed over so far.
C22_PrefixHandedOnce ==
  prog = "confluence" =>
    /\ BatchesWithinSlice
    /\ (cpc = "done" /\ ~fast_exit_triggered)
         => /\ handed = Todo
            /\ counters.processed = Min(Cap(env, Len(page_index)), Len(page_index))
    /\ (cpc = "done" /\ fast_exit_triggered)
         => counters.processed = Len(handed)

\* two pages indexed, no MAX_PAGES, PAGE_LIMIT = 1: two batches, CSV written
C22_Witness ==
  /\ prog = "confluence" /\ cpc = "done" /\ ~fast_exit_triggered
  /\ Len(page_index) = 2 /\ env.MAX_PAGES = 0 /\ env.PAGE_LIMIT = 1
  /\ Len(handed) = 2 /\ counters.processed = 2

\* process_batch returns to main normally (not by an exception)
BatchReturnsNormally == cpc = "pool" /\ cpc' \in {"loop", "csv"}

\* C23: at most MAX_WORKERS workers run at the same time, under every
\* interleaving, and when process_batch returns normally the worker of every
\* page of the batch has run to completion.
C23_BoundedParallelism ==
  /\ [](prog = "confluence" => NumRunning <= env.MAX_WORKERS)
  /\ [][BatchReturnsNormally => (Len(tasks) = Len(batch.pages) /\ AllDone)]_vars

\* a batch of two pages with MAX_WORKERS = 1: one worker runs, the other page
\* waits in the queue of the pool
C23_Witness ==
  /\ prog = "confluence" /\ cpc = "pool" /\ env.MAX_WORKERS = 1
  /\ Len(batch.pages) = 2
  /\ tasks[1].st = "running" /\ tasks[2].st = "pending"

\* a pool thread moves: a task starts or finishes
WorkerThreadStep == \E i \in 1..Len(tasks) : i <= Len(tasks') /\ tasks'[i].st # tasks[i].st
\* tasks of the batch whose worker returned a row for page id
RowTasks(id) == {i \in 1..Len(tasks) : tasks[i].res = "row" /\ batch.pages[i].id = id}
\* rows appended to rows_out since process_batch was called, for page id
NewRows(id) == {k \in (batch.base + 1)..Len(rows) : rows[k] = id}

\* C24: rows_out changes only by an append of the thread that runs
\* process_batch, one fut.result() at a time, never in a step of a pool thread;
\* when process_batch returns, rows_out has grown by exactly one row per page
\* whose worker returned a row (none lost, none twice) and the count returned
\* is the number of rows appended.
C24_SafeAggregation ==
  /\ [][rows' # rows =>
         /\ cpc = "pool" /\ ~WorkerThreadStep
         /\ Len(rows') = Len(rows) + 1
         /\ SubSeq(rows', 1, Len(rows)) = rows]_vars
  /\ [][BatchReturnsNormally =>
         /\ \A id \in ItemIds : Cardinality(NewRows(id)) = Cardinality(RowTasks(id))
         /\ counters.kept_local = Len(rows) - batch.base
         /\ counters'.kept = counters.kept + counters.kept_local]_vars

\* a batch of two pages whose workers both returned a row, the second one
\* first, has been collected: two rows, in the order of completion
C24_Witness ==
  /\ prog = "confluence" /\ cpc = "pool" /\ AllCollected
  /\ Len(batch.pages) = 2 /\ tasks[1].res = "row" /\ tasks[2].res = "row"
  /\ rows = <<batch.pages[2].id, batch.pages[1].id>>
  /\ batch.pages[1].id # batch.pages[2].id
  /\ counters.kept_local = 2

\* a worker's exception has surfaced from fut.result()
FatalObserved == cpc \in {"unwind", "crashed"}

\* C25: once an exception has surfaced from a worker result, no task is
\* submitted any more (the pool gets no new task and main hands over no further
\* batch), and the error leaves process_batch only when every task submitted
\* before has finished.
C25_CooperativeCancellation ==
  /\ [][FatalObserved =>
         /\ FatalObserved'
         /\ Len(tasks') = Len(tasks)
         /\ handed' = handed /\ batch' = batch]_vars
  /\ [][(cpc = "unwind" /\ cpc' = "crashed") =>
         \A i \in 1..Len(tasks) : tasks[i].st = "done"]_vars

\* the error has left process_batch and main: with MAX_WORKERS = 1 the first
\* page's worker raised while the second page was still queued; the second
\* worker has run to its end although nobody reads its result
C25_Witness ==
  /\ prog = "confluence" /\ cpc = "crashed" /\ env.MAX_WORKERS = 1
  /\ Len(tasks) = 2 /\ tasks[1].res = "raised" /\ tasks[1].collected
  /\ tasks[2].st = "done" /\ ~tasks[2].collected

RECURSIVE Pow2(_)
Pow2(n) == IF n = 0 THEN 1 ELSE 2 * Pow2(n - 1)

\* C26: the wait of safe_get between the transient failure of attempt i and
\* attempt i + 1 is at least BACKOFF_FACTOR * 2^(i-1), and at least the
\* Retry-After value of the failed response when it carries one (times in
\* tenths of a second).
C26_BackoffSchedule ==
  prog = "safe_get" =>
    \A k \in 1..Len(sg.waits) :
       LET w == sg.waits[k]
       IN w.i < sg.MAX_RETRIES =>
            /\ w.wait >= sg.BACKOFF_FACTOR * Pow2(w.i - 1)
            /\ w.retry_after # NoRetryAfter => w.wait >= 10 * w.retry_after

\* C27: a custom field is written to the unused list only if the server
\* reported no context for it and, with --check-data, no issue data: not after
\* a failed contexts request or a failed JQL count request.
C27_FailureNeverMarksUnused ==
  (prog = "customfields" /\ cf.pc = "written" /\ cf.unused_rows # <<>>) =>
     /\ cf.ctx = "none"
     /\ cf.check_data => cf.cnt = "zero"

\* the four outcomes of a row: action and status of its report row
RowOutcomes ==
  { <<"lookup", "failed">>, <<"dry_run", "ok">>, <<"skip", "ok">>,
    <<"deactivate", "ok">>, <<"deactivate", "failed">> }

\* C28: the report holds one row per input row taken so far, in input order,
\* each with one of the outcomes lookup-failed, dry_run, skip, deactivate, and
\* at most one deactivate_user call; when the run has ended, every input row has
\* its report row.
C28_OneReportRowPerInputRow ==
  prog = "slack" =>
    /\ Len(sl.report) <= Len(sl.input)
    /\ \A k \in 1..Len(sl.report) :
         /\ sl.report[k].email = sl.input[k].email
         /\ <<sl.report[k].action, sl.report[k].status>> \in RowOutcomes
         /\ Cardinality(PatchesOfRow(k)) <= 1
         /\ PatchesOfRow(k) # {} <=> sl.report[k].action = "deactivate"
    /\ sl.pc \in {"done", "crashed"} => Len(sl.report) = Len(sl.input)

\* every request of the call was answered 429 or 5xx
AllTransient(answers) ==
  \A k \in 1..Len(answers) :
    answers[k] = 429 \/ (500 <= answers[k] /\ answers[k] <= 599)

\* C29: a scim_request call sends at most max_retries requests, and returns
\* 599 after max_retries requests when each was answered 429 or 5xx; a row
\* whose lookup ended in 599 has no scim_id, is reported as a failed lookup and
\* gets no PATCH; an access check that ends in 599 aborts the run before any
\* row is handled.
C29_BoundedRetriesSafeOutcome ==
  /\ (prog = "scim_request" /\ sr.pc = "returned") =>
       /\ sr.attempts >= 1 /\ sr.attempts <= ScimMaxRetries
       /\ sr.attempts <= Len(sr.answers)
       /\ AllTransient(sr.answers) =>
            sr.code = 599 /\ sr.attempts = ScimMaxRetries
       /\ ~AllTransient(sr.answers) => sr.code = sr.answers[sr.attempts]
  /\ prog = "slack" =>
       /\ \A j \in 1..Len(sl.patches) : sl.patches[j].attempts <= ScimMaxRetries
       /\ \A k \in 1..Len(sl.report) :
            sl.report[k].lookup_code = 599 =>
              /\ sl.report[k].action = "lookup" /\ sl.report[k].status = "failed"
              /\ sl.report[k].scim_id = ""
              /\ PatchesOfRow(k) = {}
       /\ (sl.pc = "decide" /\ sl.cur.lookup_code = 599) => sl.cur.scim_id = ""
       /\ sl.access_code >= 400 =>
            sl.pc = "aborted" /\ sl.report = <<>> /\ sl.patches = <<>>
            /\ sl.rows = sl.input

\* a run has reported a row whose lookup ended in 599 and has deactivated
\* another row
C29_Witness ==
  /\ prog = "slack" /\ sl.pc = "done"
  /\ \E k \in 1..Len(sl.report) : sl.report[k].lookup_code = 599
  /\ sl.patches # <<>>

\* C30: when collect_screens has returned and the v3 request gave no usable
\* list (another shape, or an HTTP error), the v2 endpoint was requested too,
\* and screens.csv comes from the first endpoint that returned a list.
C30_ScreensFallback ==
  (prog = "screens" /\ scr.pc = "returned") =>
     /\ scr.v3 \in {"other_shape", "http_error"} => scr.tried = <<"3", "2">>
     /\ scr.v3 = "list" => scr.csv_from = "3"
     /\ (scr.v3 # "list" /\ scr.v2 = "list") => scr.csv_from = "2"
====
